---- MODULE Spec2Model ----
(***************************************************************************)
(* Model of the animation clip baker of Maya2glTF:                         *)
(*   ExportableClip::ExportableClip   (src/src/ExportableClip.cpp)         *)
(*   NodeAnimation::NodeAnimation, sampleAt, exportTo, finish              *)
(*                                     (src/unnamed/part_000)              *)
(* Floats are modelled as integers in a fixed-point unit; times are        *)
(* integers in ticks of 1/TicksPerSecond second.                           *)
(***************************************************************************)
EXTENDS Integers, Sequences, FiniteSets, TLC

VARIABLES
    pc,                 \* position inside ExportableClip::ExportableClip
    args,               \* Arguments (flags, thresholds, step-detect sample count)
    clipArg,            \* AnimClipArg (frameCount, framesPerSecond, startTime)
    table,              \* scene.table(): the exportable nodes, in table order
    profile,            \* what the host scene can do at a time (poses, shears)
    m_frames,           \* ExportableClip::m_frames
    m_nodeAnimations,   \* ExportableClip::m_nodeAnimations
    glAnimation,        \* ExportableClip::glAnimation (the output clip)
    relativeFrameIndex, \* loop variable of the frame loop
    samplerIndex,       \* position of the inner loops over m_nodeAnimations
    currentTime,        \* the host scene's time cursor
    scene,              \* the host scene's state per node at currentTime
    transformCache,     \* the NodeTransformCache of the running frame
    cachesMade,         \* number of NodeTransformCache objects constructed
    cerr,               \* warnings written by exportTo
    trace,              \* the calls made so far, in order
    observed            \* per sampler: what the scene showed it in its sampled frames

vars == << pc, args, clipArg, table, profile, m_frames, m_nodeAnimations,
           glAnimation, relativeFrameIndex, samplerIndex, currentTime, scene,
           transformCache, cachesMade, cerr, trace, observed >>

----------------------------------------------------------------------------
\* Bounds of the model.

MaxFrames == 2

MaxShearFrames == 11

MaxNodes == 2

\* Program constants.

\* m_invalidLocalTransformTimes.reserve(10)
Capacity == 10

\* MAX_NON_ORTHOGONALITY, in the model's unit of non-orthogonality
MAX_NON_ORTHOGONALITY == 1

\* ticks per second of the model's clock
TicksPerSecond == 4

----------------------------------------------------------------------------
\* Helpers.

Abs(x) == IF x < 0 THEN 0 - x ELSE x

Max(a, b) == IF a < b THEN b ELSE a

Min(a, b) == IF a < b THEN a ELSE b

Bump(s, i, d) == [s EXCEPT ![i] = @ + d]

Range(s) == { s[i] : i \in 1..Len(s) }

----------------------------------------------------------------------------
\* The host scene (an external collaborator).

Kinds == { "Simple", "ComplexJoint", "ComplexTransform" }

\* node.initialTransformState: the rest pose, primary and secondary TRS.
RestPrimaryTRS ==
    [ translation |-> << 10, 11, 12 >>,
      rotation    |-> << 0, 0, 0, 100 >>,
      scale       |-> << 100, 100, 100 >> ]

RestSecondaryTRS ==
    [ translation |-> << 20, 21, 22 >>,
      rotation    |-> << 50, 0, 0, 87 >>,
      scale       |-> << 200, 200, 200 >> ]

\* mesh->initialWeights()
InitialWeights(count) == [ i \in 1..count |-> 0 ]

\* A deviation of the scene from the rest pose: one component moved by delta.
NoDev == [ comp |-> "none", delta |-> 0 ]

AllDevs ==
    { NoDev,
      [ comp |-> "pT", delta |-> 1 ],  [ comp |-> "pR", delta |-> -1 ],
      [ comp |-> "pS", delta |-> 1 ],  [ comp |-> "sT", delta |-> -1 ],
      [ comp |-> "sR", delta |-> 1 ],  [ comp |-> "sS", delta |-> -1 ],
      [ comp |-> "W",  delta |-> 1 ] }

Moved(rest, dev, comp, i) == IF dev.comp = comp THEN Bump(rest, i, dev.delta) ELSE rest

\* The decomposed local transform of a node whose scene state is st.
TransformStateOf(st) ==
    [ primaryTRS |->
        [ translation |-> Moved(RestPrimaryTRS.translation, st.dev, "pT", 3),
          rotation    |-> Moved(RestPrimaryTRS.rotation, st.dev, "pR", 4),
          scale       |-> Moved(RestPrimaryTRS.scale, st.dev, "pS", 2) ],
      secondaryTRS |->
        [ translation |-> Moved(RestSecondaryTRS.translation, st.dev, "sT", 1),
          rotation    |-> Moved(RestSecondaryTRS.rotation, st.dev, "sR", 2),
          scale       |-> Moved(RestSecondaryTRS.scale, st.dev, "sS", 3) ],
      maxNonOrthogonality |-> st.shear ]

\* mesh->currentWeights()
CurrentWeights(st, count) ==
    IF count = 0 THEN << >> ELSE Moved(InitialWeights(count), st.dev, "W", count)

RestState == [ dev |-> NoDev, shear |-> 0 ]

----------------------------------------------------------------------------
\* ExportableFrames (FrameGrid): times[i] = i / framesPerSecond.

FrameGridValid(frameCount, framesPerSecond) == frameCount >= 1 /\ framesPerSecond > 0

ExportableFrames(frameCount, framesPerSecond) ==
    [ count |-> frameCount,
      times |-> [ i \in 1..frameCount |-> ((i - 1) * TicksPerSecond) \div framesPerSecond ] ]

NoFrames == [ count |-> 0, times |-> << >> ]

----------------------------------------------------------------------------
\* PropAnimation (ChannelBuffer).

PropAnimation(target, path, dimension) ==
    [ target |-> target, path |-> path, dimension |-> dimension,
      componentValuesPerFrame |-> << >>,
      released |-> FALSE,       \* the owning unique_ptr was release()d
      finished |-> "no" ]       \* "no", or how PropAnimation::finish was called

\* PropAnimation::append and appendQuaternion
Append_(prop, values) ==
    [ prop EXCEPT !.componentValuesPerFrame = @ \o values ]

\* PropAnimation::finish(name, useSingleKey)
PropFinish(prop, useSingleKey) ==
    [ prop EXCEPT !.finished = IF useSingleKey THEN "single" ELSE "full" ]

----------------------------------------------------------------------------
\* NodeAnimation::NodeAnimation

\* lines 18-20, 23-27, 36-40: the props every node of the kind has
BaseProps(kind) ==
    CASE kind = "Simple" ->
           [ m_positions |-> PropAnimation("p", "TRANSLATION", 3),
             m_rotations |-> PropAnimation("p", "ROTATION", 4),
             m_scales    |-> PropAnimation("p", "SCALE", 3) ]
      [] kind = "ComplexJoint" ->
           [ m_positions   |-> PropAnimation("s", "TRANSLATION", 3),
             m_rotations   |-> PropAnimation("p", "ROTATION", 4),
             m_scales      |-> PropAnimation("p", "SCALE", 3),
             m_correctors  |-> PropAnimation("s", "SCALE", 3) ]
      [] kind = "ComplexTransform" ->
           [ m_positions   |-> PropAnimation("s", "TRANSLATION", 3),
             m_rotations   |-> PropAnimation("s", "ROTATION", 4),
             m_scales      |-> PropAnimation("s", "SCALE", 3),
             m_correctors  |-> PropAnimation("p", "TRANSLATION", 3) ]

\* DummyProps with both dummies of a ComplexJoint node put on the primary node
DummyPropsOnPrimary(kind, forceAnimationChannels) ==
    CASE kind = "ComplexJoint" /\ forceAnimationChannels ->
           [ m_dummyProps1 |-> PropAnimation("p", "TRANSLATION", 3),
             m_dummyProps2 |-> PropAnimation("p", "ROTATION", 4) ]
      [] kind = "ComplexTransform" /\ forceAnimationChannels ->
           [ m_dummyProps1 |-> PropAnimation("p", "SCALE", 3),
             m_dummyProps2 |-> PropAnimation("p", "ROTATION", 4) ]
      [] OTHER -> << >>

\* DummyProps with the dummies of a ComplexTransform node forgotten
DummyPropsJointOnly(kind, forceAnimationChannels) ==
    IF kind = "ComplexJoint" /\ forceAnimationChannels
    THEN [ m_dummyProps1 |-> PropAnimation("p", "TRANSLATION", 3),
           m_dummyProps2 |-> PropAnimation("s", "ROTATION", 4) ]
    ELSE << >>

\* lines 29-32, 42-45: the dummy props of a complex node with forced channels
DummyProps(kind, forceAnimationChannels) ==
    CASE kind = "ComplexJoint" /\ forceAnimationChannels ->
           [ m_dummyProps1 |-> PropAnimation("p", "TRANSLATION", 3),
             m_dummyProps2 |-> PropAnimation("s", "ROTATION", 4) ]
      [] kind = "ComplexTransform" /\ forceAnimationChannels ->
           [ m_dummyProps1 |-> PropAnimation("p", "SCALE", 3),
             m_dummyProps2 |-> PropAnimation("p", "ROTATION", 4) ]
      [] OTHER -> << >>

TransformProps(kind, forceAnimationChannels) ==
    BaseProps(kind) @@ DummyProps(kind, forceAnimationChannels)

WeightProps(blendShapeCount) ==
    IF blendShapeCount > 0
    THEN [ m_weights |-> PropAnimation("p", "WEIGHTS", blendShapeCount) ]
    ELSE << >>

NodeAnimation(nodeId, node, a) ==
    [ node |-> nodeId,
      transformKind |-> node.transformKind,
      m_blendShapeCount |-> node.blendShapeCount,
      m_invalidLocalTransformTimes |-> << >>,
      m_maxNonOrthogonality |-> 0,
      props |-> TransformProps(node.transformKind, a.forceAnimationChannels)
                  @@ WeightProps(node.blendShapeCount) ]

----------------------------------------------------------------------------
\* NodeAnimation::sampleAt

\* RecordNonOrthogonality with room for one entry more than the capacity
RecordOnePastCapacity(anim, absoluteTime, transformState) ==
    IF /\ transformState.maxNonOrthogonality > MAX_NON_ORTHOGONALITY
       /\ Len(anim.m_invalidLocalTransformTimes) <= Capacity
    THEN [ anim EXCEPT
             !.m_maxNonOrthogonality = Max(@, transformState.maxNonOrthogonality),
             !.m_invalidLocalTransformTimes = Append(@, absoluteTime) ]
    ELSE anim

\* RecordNonOrthogonality that also records a frame exactly at the tolerance
RecordAtTolerance(anim, absoluteTime, transformState) ==
    IF /\ transformState.maxNonOrthogonality >= MAX_NON_ORTHOGONALITY
       /\ Len(anim.m_invalidLocalTransformTimes) < Capacity
    THEN [ anim EXCEPT
             !.m_maxNonOrthogonality = Max(@, transformState.maxNonOrthogonality),
             !.m_invalidLocalTransformTimes = Append(@, absoluteTime) ]
    ELSE anim

\* lines 63-66: remember the time of a frame whose transform is not orthogonal
RecordNonOrthogonality(anim, absoluteTime, transformState) ==
    IF /\ transformState.maxNonOrthogonality > MAX_NON_ORTHOGONALITY
       /\ Len(anim.m_invalidLocalTransformTimes) < Capacity
    THEN [ anim EXCEPT
             !.m_maxNonOrthogonality = Max(@, transformState.maxNonOrthogonality),
             !.m_invalidLocalTransformTimes = Append(@, absoluteTime) ]
    ELSE anim

\* BaseRouting with the corrector of a ComplexTransform node read from the
\* secondary translation
BaseRoutingCorrectorFromSecondary(kind, pTRS, sTRS) ==
    CASE kind = "Simple" ->
           << << "m_positions", pTRS.translation >>,
              << "m_rotations", pTRS.rotation >>,
              << "m_scales", pTRS.scale >> >>
      [] kind = "ComplexJoint" ->
           << << "m_positions", sTRS.translation >>,
              << "m_rotations", pTRS.rotation >>,
              << "m_scales", pTRS.scale >>,
              << "m_correctors", sTRS.scale >> >>
      [] kind = "ComplexTransform" ->
           << << "m_positions", sTRS.translation >>,
              << "m_rotations", sTRS.rotation >>,
              << "m_scales", sTRS.scale >>,
              << "m_correctors", sTRS.translation >> >>

\* lines 70-72, 75-79, 88-92: the values appended to the props of every node
BaseRouting(kind, pTRS, sTRS) ==
    CASE kind = "Simple" ->
           << << "m_positions", pTRS.translation >>,
              << "m_rotations", pTRS.rotation >>,
              << "m_scales", pTRS.scale >> >>
      [] kind = "ComplexJoint" ->
           << << "m_positions", sTRS.translation >>,
              << "m_rotations", pTRS.rotation >>,
              << "m_scales", pTRS.scale >>,
              << "m_correctors", sTRS.scale >> >>
      [] kind = "ComplexTransform" ->
           << << "m_positions", sTRS.translation >>,
              << "m_rotations", sTRS.rotation >>,
              << "m_scales", sTRS.scale >>,
              << "m_correctors", pTRS.translation >> >>

\* DummyRouting with the dummies of a ComplexTransform node never appended
DummyRoutingJointOnly(kind, forceAnimationChannels, pTRS, sTRS) ==
    IF kind = "ComplexJoint" /\ forceAnimationChannels
    THEN << << "m_dummyProps1", pTRS.translation >>,
            << "m_dummyProps2", sTRS.rotation >> >>
    ELSE << >>

\* lines 81-84, 94-97: the values appended to the dummy props
DummyRouting(kind, forceAnimationChannels, pTRS, sTRS) ==
    CASE kind = "ComplexJoint" /\ forceAnimationChannels ->
           << << "m_dummyProps1", pTRS.translation >>,
              << "m_dummyProps2", sTRS.rotation >> >>
      [] kind = "ComplexTransform" /\ forceAnimationChannels ->
           << << "m_dummyProps1", pTRS.scale >>,
              << "m_dummyProps2", pTRS.rotation >> >>
      [] OTHER -> << >>

\* lines 68-103: the values appended to each transform prop, per kind
SampleRouting(kind, forceAnimationChannels, pTRS, sTRS) ==
    BaseRouting(kind, pTRS, sTRS) \o DummyRouting(kind, forceAnimationChannels, pTRS, sTRS)

\* lines 105-109: the weights prop is appended when the node has blend shapes
WeightRouting(blendShapeCount, weights) ==
    IF blendShapeCount # 0 THEN << << "m_weights", weights >> >> ELSE << >>

RECURSIVE AppendAll(_, _)
AppendAll(props, routing) ==
    IF routing = << >> THEN props
    ELSE AppendAll([ props EXCEPT ![Head(routing)[1]] = Append_(@, Head(routing)[2]) ],
                   Tail(routing))

\* sampleAt that appends nothing for a frame whose transform is over the tolerance
sampleAtSkippingSheared(anim, absoluteTime, transformState, weights, a) ==
    LET noted == RecordNonOrthogonality(anim, absoluteTime, transformState)
        routing == SampleRouting(anim.transformKind, a.forceAnimationChannels,
                                 transformState.primaryTRS, transformState.secondaryTRS)
                   \o WeightRouting(anim.m_blendShapeCount, weights)
    IN  IF transformState.maxNonOrthogonality > MAX_NON_ORTHOGONALITY
        THEN noted
        ELSE [ noted EXCEPT !.props = AppendAll(@, routing) ]

sampleAt(anim, absoluteTime, transformState, weights, a) ==
    LET noted == RecordNonOrthogonality(anim, absoluteTime, transformState)
        routing == SampleRouting(anim.transformKind, a.forceAnimationChannels,
                                 transformState.primaryTRS, transformState.secondaryTRS)
                   \o WeightRouting(anim.m_blendShapeCount, weights)
    IN  [ noted EXCEPT !.props = AppendAll(@, routing) ]

----------------------------------------------------------------------------
\* NodeAnimation::finish

\* BlockIsConstant with a difference equal to the threshold counted as constant
RECURSIVE BlockIsConstantWithin(_, _, _, _, _, _)
BlockIsConstantWithin(componentValues, baseValues, dimension, constantThreshold, offset, index) ==
    IF index >= dimension THEN TRUE
    ELSE IF Abs(baseValues[index + 1] - componentValues[offset + index + 1]) <= constantThreshold
         THEN BlockIsConstantWithin(componentValues, baseValues, dimension, constantThreshold,
                                    offset, index + 1)
         ELSE FALSE

\* lines 192-194: one frame's block against the base values
RECURSIVE BlockIsConstant(_, _, _, _, _, _)
BlockIsConstant(componentValues, baseValues, dimension, constantThreshold, offset, index) ==
    IF index >= dimension THEN TRUE
    ELSE IF Abs(baseValues[index + 1] - componentValues[offset + index + 1]) < constantThreshold
         THEN BlockIsConstant(componentValues, baseValues, dimension, constantThreshold,
                              offset, index + 1)
         ELSE FALSE

\* lines 189-195: all frames, stopping at the first that differs
RECURSIVE FramesAreConstant(_, _, _, _, _)
FramesAreConstant(componentValues, baseValues, dimension, constantThreshold, offset) ==
    IF offset >= Len(componentValues) THEN TRUE
    ELSE IF BlockIsConstant(componentValues, baseValues, dimension, constantThreshold, offset, 0)
         THEN FramesAreConstant(componentValues, baseValues, dimension, constantThreshold,
                                offset + dimension)
         ELSE FALSE

IsConstant(componentValues, baseValues, dimension, constantThreshold) ==
    FramesAreConstant(componentValues, baseValues, dimension, constantThreshold, 0)

\* FinishDecision with the drop test ignoring forceAnimationChannels
FinishDecisionDropsForcedChannels(isConstant, forceAnimationSampling, forceAnimationChannels, detectStepSampleCount) ==
    IF isConstant /\ ~forceAnimationSampling
    THEN "release"
    ELSE LET useSingleKey == isConstant /\ ~forceAnimationSampling
         IN  IF useSingleKey \/ detectStepSampleCount <= 1
             THEN IF useSingleKey THEN "single" ELSE "full"
             ELSE "nothing"

\* lines 197-210: what finish does with the prop
\*   "release": the prop is dropped; "single"/"full": PropAnimation::finish is
\*   called with useSingleKey true/false and the channel is pushed to the clip;
\*   "nothing": the step-detection branch, which does nothing
FinishDecision(isConstant, forceAnimationSampling, forceAnimationChannels, detectStepSampleCount) ==
    IF isConstant /\ ~forceAnimationSampling /\ ~forceAnimationChannels
    THEN "release"
    ELSE LET useSingleKey == isConstant /\ ~forceAnimationSampling
         IN  IF useSingleKey \/ detectStepSampleCount <= 1
             THEN IF useSingleKey THEN "single" ELSE "full"
             ELSE "nothing"

Channel(samplerId, key, propName, prop) ==
    [ sampler |-> samplerId, prop |-> key, propName |-> propName,
      target |-> prop.target, path |-> prop.path ]

\* st = [props, channels]: the sampler's props and glAnimation.channels
finish(st, samplerId, call, detectStepSampleCount, a) ==
    LET key == call.prop
        animatedProp == st.props[key]
        dimension == animatedProp.dimension
        decision == FinishDecision(
                        IsConstant(animatedProp.componentValuesPerFrame, call.baseValues,
                                   dimension, call.constantThreshold),
                        a.forceAnimationSampling, a.forceAnimationChannels,
                        detectStepSampleCount)
    IN  IF dimension = 0 THEN st
        ELSE CASE decision = "release" ->
                    [ st EXCEPT !.props[key].released = TRUE ]
               [] decision \in { "single", "full" } ->
                    [ props |-> [ st.props EXCEPT
                                    ![key] = PropFinish(@, decision = "single") ],
                      channels |-> Append(st.channels,
                                          Channel(samplerId, key, call.propName, animatedProp)) ]
               [] OTHER -> st

----------------------------------------------------------------------------
\* NodeAnimation::exportTo

FinishCall(key, propName, constantThreshold, baseValues) ==
    [ prop |-> key, propName |-> propName, constantThreshold |-> constantThreshold,
      baseValues |-> baseValues ]

\* TransformFinishCalls with the scale of a Simple node compared to the secondary rest scale
TransformFinishCallsWrongBase(kind, a, pTRS, sTRS) ==
    CASE kind = "Simple" ->
           << FinishCall("m_positions", "T", a.constantTranslationThreshold, pTRS.translation),
              FinishCall("m_rotations", "R", a.constantRotationThreshold, pTRS.rotation),
              FinishCall("m_scales", "S", a.constantScalingThreshold, sTRS.scale) >>
      [] OTHER ->
           << FinishCall("m_positions", "T", a.constantTranslationThreshold, sTRS.translation),
              FinishCall("m_rotations", "R", a.constantRotationThreshold,
                         IF kind = "ComplexJoint" THEN pTRS.rotation ELSE sTRS.rotation),
              FinishCall("m_scales", "S", a.constantScalingThreshold,
                         IF kind = "ComplexJoint" THEN pTRS.scale ELSE sTRS.scale),
              FinishCall("m_correctors", "C", a.constantScalingThreshold,
                         IF kind = "ComplexJoint" THEN sTRS.scale ELSE pTRS.translation) >>
           \o ( IF a.forceAnimationChannels
                THEN << FinishCall("m_dummyProps1", IF kind = "ComplexJoint" THEN "DT" ELSE "DS", 0,
                                   IF kind = "ComplexJoint" THEN pTRS.translation ELSE pTRS.scale),
                        FinishCall("m_dummyProps2", "DR", 0,
                                   IF kind = "ComplexJoint" THEN sTRS.rotation ELSE pTRS.rotation) >>
                ELSE << >> )

\* lines 135-170: the finish calls per kind, in order
TransformFinishCalls(kind, a, pTRS, sTRS) ==
    CASE kind = "Simple" ->
           << FinishCall("m_positions", "T", a.constantTranslationThreshold, pTRS.translation),
              FinishCall("m_rotations", "R", a.constantRotationThreshold, pTRS.rotation),
              FinishCall("m_scales", "S", a.constantScalingThreshold, pTRS.scale) >>
      [] kind = "ComplexJoint" ->
           << FinishCall("m_positions", "T", a.constantTranslationThreshold, sTRS.translation),
              FinishCall("m_rotations", "R", a.constantRotationThreshold, pTRS.rotation),
              FinishCall("m_scales", "S", a.constantScalingThreshold, pTRS.scale),
              FinishCall("m_correctors", "C", a.constantScalingThreshold, sTRS.scale) >>
           \o ( IF a.forceAnimationChannels
                THEN << FinishCall("m_dummyProps1", "DT", 0, pTRS.translation),
                        FinishCall("m_dummyProps2", "DR", 0, sTRS.rotation) >>
                ELSE << >> )
      [] kind = "ComplexTransform" ->
           << FinishCall("m_positions", "T", a.constantTranslationThreshold, sTRS.translation),
              FinishCall("m_rotations", "R", a.constantRotationThreshold, sTRS.rotation),
              FinishCall("m_scales", "S", a.constantScalingThreshold, sTRS.scale),
              FinishCall("m_correctors", "C", a.constantScalingThreshold, pTRS.translation) >>
           \o ( IF a.forceAnimationChannels
                THEN << FinishCall("m_dummyProps1", "DS", 0, pTRS.scale),
                        FinishCall("m_dummyProps2", "DR", 0, pTRS.rotation) >>
                ELSE << >> )

\* lines 172-176
WeightFinishCalls(blendShapeCount, a) ==
    IF blendShapeCount # 0
    THEN << FinishCall("m_weights", "W", a.constantWeightsThreshold,
                       InitialWeights(blendShapeCount)) >>
    ELSE << >>

RECURSIVE FinishAll(_, _, _, _, _)
FinishAll(st, samplerId, calls, detectStepSampleCount, a) ==
    IF calls = << >> THEN st
    ELSE FinishAll(finish(st, samplerId, Head(calls), detectStepSampleCount, a),
                   samplerId, Tail(calls), detectStepSampleCount, a)

\* lines 116-129: the warning written when invalid transforms were recorded
Warnings(anim) ==
    IF anim.m_invalidLocalTransformTimes # << >>
    THEN << [ node |-> anim.node,
              largestDeviation |-> anim.m_maxNonOrthogonality,
              times |-> anim.m_invalidLocalTransformTimes ] >>
    ELSE << >>

\* returns the sampler's props, the clip's channels and the warnings written
exportTo(anim, samplerId, channels, a) ==
    LET detectStepSampleCount == a.stepDetectSampleCount
        calls == TransformFinishCalls(anim.transformKind, a, RestPrimaryTRS, RestSecondaryTRS)
                 \o WeightFinishCalls(anim.m_blendShapeCount, a)
        done == FinishAll([ props |-> anim.props, channels |-> channels ],
                          samplerId, calls, detectStepSampleCount, a)
    IN  [ props |-> done.props, channels |-> done.channels, warnings |-> Warnings(anim) ]

----------------------------------------------------------------------------
\* ExportableClip::ExportableClip, step by step.

\* AbsoluteFrameTime with the clip's start time forgotten
RelativeFrameTime(i) == m_frames.times[i + 1]

\* lines 29-30: absoluteFrameTime of frame index i (0-based)
AbsoluteFrameTime(i) == clipArg.startTime + m_frames.times[i + 1]

\* CreateAnimationsFrom that keeps the animation of every node, null or not
RECURSIVE CreateAnimationsForEveryNode(_, _, _)
CreateAnimationsForEveryNode(items, i, a) ==
    IF i > Len(items) THEN << >>
    ELSE << NodeAnimation(i, items[i], a) >> \o CreateAnimationsForEveryNode(items, i + 1, a)

\* lines 20-26: one NodeAnimation per node whose createAnimation is not null
RECURSIVE CreateAnimationsFrom(_, _, _)
CreateAnimationsFrom(items, i, a) ==
    IF i > Len(items) THEN << >>
    ELSE ( IF items[i].animatable THEN << NodeAnimation(i, items[i], a) >> ELSE << >> )
         \o CreateAnimationsFrom(items, i + 1, a)

NoCache == [ id |-> 0, entries |-> << >> ]

\* NodeTransformCache::getTransform: computed on first use in the frame, then kept
GetTransform(cache, nodeId) ==
    IF nodeId \in DOMAIN cache.entries
    THEN [ cache |-> cache, state |-> cache.entries[nodeId] ]
    ELSE [ cache |-> [ cache EXCEPT !.entries = (nodeId :> TransformStateOf(scene[nodeId])) @@ @ ],
           state |-> TransformStateOf(scene[nodeId]) ]

Event(op, sampler, frame, time, cache) ==
    [ op |-> op, sampler |-> sampler, frame |-> frame, time |-> time, cache |-> cache ]

NothingObserved ==
    [ frames |-> 0, devs |-> {}, poses |-> << >>, invalidTimes |-> << >>, worst |-> 0 ]

Observe(o, absoluteTime, st) ==
    [ frames |-> o.frames + 1,
      devs |-> o.devs \cup { st.dev },
      poses |-> Append(o.poses, st.dev),
      invalidTimes |-> IF st.shear > MAX_NON_ORTHOGONALITY
                       THEN Append(o.invalidTimes, absoluteTime) ELSE o.invalidTimes,
      worst |-> IF st.shear > MAX_NON_ORTHOGONALITY THEN Max(o.worst, st.shear) ELSE o.worst ]

\* Construct that runs the constructor body over an empty frame set when the
\* construction of m_frames was rejected
ConstructDespiteRejection ==
    /\ pc = "start"
    /\ m_frames' = IF FrameGridValid(clipArg.frameCount, clipArg.framesPerSecond)
                   THEN ExportableFrames(clipArg.frameCount, clipArg.framesPerSecond)
                   ELSE NoFrames
    /\ pc' = "createAnimations"
    /\ UNCHANGED << args, clipArg, table, profile, m_nodeAnimations, glAnimation,
                    relativeFrameIndex, samplerIndex, currentTime, scene,
                    transformCache, cachesMade, cerr, trace, observed >>

\* lines 8-14: the member initialisers; m_frames is built first
Construct ==
    /\ pc = "start"
    /\ IF FrameGridValid(clipArg.frameCount, clipArg.framesPerSecond)
       THEN /\ m_frames' = ExportableFrames(clipArg.frameCount, clipArg.framesPerSecond)
            /\ pc' = "createAnimations"
       ELSE /\ m_frames' = m_frames
            /\ pc' = "failed"
    /\ UNCHANGED << args, clipArg, table, profile, m_nodeAnimations, glAnimation,
                    relativeFrameIndex, samplerIndex, currentTime, scene,
                    transformCache, cachesMade, cerr, trace, observed >>

\* lines 16-26
CreateAnimations ==
    /\ pc = "createAnimations"
    /\ m_nodeAnimations' = CreateAnimationsFrom(table, 1, args)
    /\ observed' = [ i \in 1..Len(m_nodeAnimations') |-> NothingObserved ]
    /\ relativeFrameIndex' = 0
    /\ samplerIndex' = 1
    /\ pc' = IF 0 < m_frames.count THEN "setTime" ELSE "export"
    /\ UNCHANGED << args, clipArg, table, profile, m_frames, glAnimation, currentTime,
                    scene, transformCache, cachesMade, cerr, trace >>

\* lines 28-33: the scene is moved to the frame's time and re-evaluated, and a
\* new NodeTransformCache is constructed
SetCurrentTime ==
    /\ pc = "setTime"
    /\ relativeFrameIndex < m_frames.count
    /\ currentTime' = AbsoluteFrameTime(relativeFrameIndex)
    /\ \E evaluated \in [ 1..Len(table) -> [ dev : profile.devs, shear : profile.shears ] ] :
          scene' = evaluated
    /\ cachesMade' = cachesMade + 1
    /\ transformCache' = [ id |-> cachesMade + 1, entries |-> << >> ]
    /\ trace' = trace \o << Event("setCurrentTime", 0, relativeFrameIndex,
                                  AbsoluteFrameTime(relativeFrameIndex), 0),
                            Event("NodeTransformCache", 0, relativeFrameIndex,
                                  AbsoluteFrameTime(relativeFrameIndex), cachesMade + 1) >>
    /\ samplerIndex' = 1
    /\ pc' = "sample"
    /\ UNCHANGED << args, clipArg, table, profile, m_frames, m_nodeAnimations,
                    glAnimation, relativeFrameIndex, cerr, observed >>

\* SampleAt that hands every sampler the transform of the first sampler's node
SampleAtFirstNodeTransform ==
    /\ pc = "sample"
    /\ samplerIndex <= Len(m_nodeAnimations)
    /\ LET anim == m_nodeAnimations[samplerIndex]
           got == GetTransform(transformCache, m_nodeAnimations[1].node)
           weights == CurrentWeights(scene[anim.node], anim.m_blendShapeCount)
           absoluteTime == AbsoluteFrameTime(relativeFrameIndex)
       IN  /\ transformCache' = got.cache
           /\ m_nodeAnimations' = [ m_nodeAnimations EXCEPT ![samplerIndex] =
                                      sampleAt(anim, absoluteTime, got.state, weights, args) ]
           /\ observed' = [ observed EXCEPT ![samplerIndex] =
                              Observe(@, absoluteTime, scene[anim.node]) ]
           /\ trace' = Append(trace, Event("sampleAt", samplerIndex, relativeFrameIndex,
                                           absoluteTime, transformCache.id))
    /\ samplerIndex' = samplerIndex + 1
    /\ UNCHANGED << pc, args, clipArg, table, profile, m_frames, glAnimation,
                    relativeFrameIndex, currentTime, scene, cachesMade, cerr >>

\* lines 34-36: one iteration of the loop over m_nodeAnimations
SampleAt ==
    /\ pc = "sample"
    /\ samplerIndex <= Len(m_nodeAnimations)
    /\ LET anim == m_nodeAnimations[samplerIndex]
           got == GetTransform(transformCache, anim.node)
           weights == CurrentWeights(scene[anim.node], anim.m_blendShapeCount)
           absoluteTime == AbsoluteFrameTime(relativeFrameIndex)
       IN  /\ transformCache' = got.cache
           /\ m_nodeAnimations' = [ m_nodeAnimations EXCEPT ![samplerIndex] =
                                      sampleAt(anim, absoluteTime, got.state, weights, args) ]
           /\ observed' = [ observed EXCEPT ![samplerIndex] =
                              Observe(@, absoluteTime, scene[anim.node]) ]
           /\ trace' = Append(trace, Event("sampleAt", samplerIndex, relativeFrameIndex,
                                           absoluteTime, transformCache.id))
    /\ samplerIndex' = samplerIndex + 1
    /\ UNCHANGED << pc, args, clipArg, table, profile, m_frames, glAnimation,
                    relativeFrameIndex, currentTime, scene, cachesMade, cerr >>

\* EndFrame with the frame loop ending one frame early
EndFrameOneShort ==
    /\ pc = "sample"
    /\ samplerIndex > Len(m_nodeAnimations)
    /\ transformCache' = NoCache
    /\ relativeFrameIndex' = relativeFrameIndex + 1
    /\ samplerIndex' = 1
    /\ pc' = IF relativeFrameIndex + 1 < m_frames.count - 1 THEN "setTime" ELSE "export"
    /\ UNCHANGED << args, clipArg, table, profile, m_frames, m_nodeAnimations,
                    glAnimation, currentTime, scene, cachesMade, cerr, trace, observed >>

\* lines 37-42: the frame ends, its cache is destroyed, the loop goes on or ends
EndFrame ==
    /\ pc = "sample"
    /\ samplerIndex > Len(m_nodeAnimations)
    /\ transformCache' = NoCache
    /\ relativeFrameIndex' = relativeFrameIndex + 1
    /\ samplerIndex' = 1
    /\ pc' = IF relativeFrameIndex + 1 < m_frames.count THEN "setTime" ELSE "export"
    /\ UNCHANGED << args, clipArg, table, profile, m_frames, m_nodeAnimations,
                    glAnimation, currentTime, scene, cachesMade, cerr, trace, observed >>

\* lines 44-46: one iteration of the export loop
ExportTo ==
    /\ pc = "export"
    /\ samplerIndex <= Len(m_nodeAnimations)
    /\ LET anim == m_nodeAnimations[samplerIndex]
           out == exportTo(anim, samplerIndex, glAnimation.channels, args)
       IN  /\ m_nodeAnimations' = [ m_nodeAnimations EXCEPT ![samplerIndex].props = out.props ]
           /\ glAnimation' = [ glAnimation EXCEPT !.channels = out.channels ]
           /\ cerr' = cerr \o out.warnings
    /\ trace' = Append(trace, Event("exportTo", samplerIndex, relativeFrameIndex, currentTime, 0))
    /\ samplerIndex' = samplerIndex + 1
    /\ UNCHANGED << pc, args, clipArg, table, profile, m_frames, relativeFrameIndex,
                    currentTime, scene, transformCache, cachesMade, observed >>

\* line 47: the constructor returns
Return ==
    /\ pc = "export"
    /\ samplerIndex > Len(m_nodeAnimations)
    /\ pc' = "done"
    /\ UNCHANGED << args, clipArg, table, profile, m_frames, m_nodeAnimations,
                    glAnimation, relativeFrameIndex, samplerIndex, currentTime, scene,
                    transformCache, cachesMade, cerr, trace, observed >>

Next ==
    \/ Construct
    \/ CreateAnimations
    \/ SetCurrentTime
    \/ SampleAt
    \/ EndFrame
    \/ ExportTo
    \/ Return

----------------------------------------------------------------------------
\* Inputs.

Thresholds(t, r, s, w) ==
    [ constantTranslationThreshold |-> t, constantRotationThreshold |-> r,
      constantScalingThreshold |-> s, constantWeightsThreshold |-> w ]

ThresholdChoices ==
    { Thresholds(2, 1, 1, 1), Thresholds(1, 2, 1, 1), Thresholds(1, 1, 2, 1),
      Thresholds(1, 1, 1, 2), Thresholds(0, 0, 0, 0) }

Arguments(sampling, channels, steps, thresholds) ==
    [ forceAnimationSampling |-> sampling, forceAnimationChannels |-> channels,
      stepDetectSampleCount |-> steps ] @@ thresholds

Node(kind, blendShapeCount, animatable) ==
    [ transformKind |-> kind, blendShapeCount |-> blendShapeCount, animatable |-> animatable ]

InitOf(argChoices, clipChoices, tableChoices, profileChoices) ==
    /\ pc = "start"
    /\ args \in argChoices
    /\ clipArg \in clipChoices
    /\ table \in tableChoices
    /\ profile \in profileChoices
    /\ m_frames = NoFrames
    /\ m_nodeAnimations = << >>
    /\ glAnimation = [ channels |-> << >> ]
    /\ relativeFrameIndex = 0
    /\ samplerIndex = 1
    /\ currentTime = 0
    /\ scene = [ i \in 1..Len(table) |-> RestState ]
    /\ transformCache = NoCache
    /\ cachesMade = 0
    /\ cerr = << >>
    /\ trace = << >>
    /\ observed = << >>

\* The components a node of this kind and blend-shape count can move: a Simple
\* node has no secondary transform, a node without a mesh has no weights.
DevsOf(node) ==
    { d \in AllDevs :
        /\ d.comp \in { "sT", "sR", "sS" } => node.transformKind # "Simple"
        /\ d.comp = "W" => node.blendShapeCount > 0 }

RECURSIVE DevsOfTable(_)
DevsOfTable(items) ==
    IF items = << >> THEN { NoDev } ELSE DevsOf(Head(items)) \cup DevsOfTable(Tail(items))

\* One node of any kind, with or without blend shapes, every flag, every threshold
\* preset with step detection off and one preset with it on, a scene that moves any
\* one component of the node; no shear.
Init ==
    \E items \in { << >>, << Node("Simple", 0, FALSE) >> }
                   \cup { << Node(k, b, TRUE) >> : k \in Kinds, b \in { 0, 2 } } :
        InitOf( { Arguments(s, c, 1, t) : s \in BOOLEAN, c \in BOOLEAN, t \in ThresholdChoices }
                  \cup { Arguments(s, c, 2, Thresholds(2, 1, 1, 1)) : s \in BOOLEAN, c \in BOOLEAN },
                [ frameCount : 0..MaxFrames, framesPerSecond : { 2 }, startTime : { 7 } ],
                { items },
                { [ devs |-> DevsOfTable(items), shears |-> { 0 } ] } )

Spec == Init /\ [][Next]_vars

\* One node at its rest pose in a long clip whose frames may be sheared.
InitShear ==
    InitOf( { Arguments(FALSE, FALSE, 1, Thresholds(1, 1, 1, 1)) },
            [ frameCount : { 0, 1, MaxShearFrames }, framesPerSecond : { 4 },
              startTime : { 3 } ],
            { << Node(k, 0, TRUE) >> : k \in { "Simple", "ComplexJoint" } },
            { [ devs |-> { NoDev }, shears |-> { 0, 1, 2, 3 } ] } )

SpecShear == InitShear /\ [][Next]_vars

\* Several nodes, each at its rest pose, each frame sheared at the tolerance or above it.
SceneNodes == { Node("Simple", 0, TRUE), Node("ComplexJoint", 1, TRUE),
                Node("Simple", 0, FALSE) }

SceneTables == UNION { [ 1..n -> SceneNodes ] : n \in 0..MaxNodes }

InitScene ==
    InitOf( { Arguments(FALSE, c, 1, Thresholds(1, 1, 1, 1)) : c \in BOOLEAN },
            [ frameCount : 0..MaxFrames, framesPerSecond : { 0, 1 }, startTime : { 5 } ],
            SceneTables,
            { [ devs |-> { NoDev }, shears |-> { 1, 2 } ] } )

SpecScene == InitScene /\ [][Next]_vars

\* One node of any kind that moves any one component, each frame sheared or not.
InitAdvisory ==
    \E items \in { << Node(k, b, TRUE) >> : k \in Kinds, b \in { 0, 2 } } :
        InitOf( { Arguments(FALSE, c, 1, Thresholds(1, 1, 1, 1)) : c \in BOOLEAN },
                [ frameCount : 0..MaxFrames, framesPerSecond : { 2 }, startTime : { 1 } ],
                { items },
                { [ devs |-> DevsOfTable(items), shears |-> { 0, 2 } ] } )

SpecAdvisory == InitAdvisory /\ [][Next]_vars

\* A node B alone, or after a node A, each moving its primary scale or not and
\* sheared or not in every frame.
PairNodes == { Node("Simple", 0, TRUE), Node("ComplexJoint", 1, TRUE) }

PairTables == { << b >> : b \in PairNodes } \cup { << a, b >> : a \in PairNodes, b \in PairNodes }

InitPair ==
    InitOf( { Arguments(FALSE, FALSE, 1, Thresholds(1, 1, 1, 1)) },
            [ frameCount : 0..MaxFrames, framesPerSecond : { 4 }, startTime : { 2 } ],
            PairTables,
            { [ devs |-> { NoDev, [ comp |-> "pS", delta |-> 1 ] }, shears |-> { 0, 2 } ] } )

SpecPair == InitPair /\ [][Next]_vars

----------------------------------------------------------------------------
\* Vocabulary of the properties.

Samplers == 1..Len(m_nodeAnimations)

\* exportTo has run on sampler i
Exported(i) == pc = "done" \/ (pc = "export" /\ i < samplerIndex)

\* the channels of the clip that belong to prop key of sampler i
ChannelsOf(i, key) ==
    { c \in 1..Len(glAnimation.channels) :
        glAnimation.channels[c].sampler = i /\ glAnimation.channels[c].prop = key }

\* the outcome of finalizing a prop, read from the state exportTo leaves
Dropped(i, key) ==
    LET prop == m_nodeAnimations[i].props[key]
    IN  prop.released /\ prop.finished = "no" /\ ChannelsOf(i, key) = {}

SingleKeyframe(i, key) ==
    LET prop == m_nodeAnimations[i].props[key]
    IN  ~prop.released /\ prop.finished = "single" /\ Cardinality(ChannelsOf(i, key)) = 1

FullTrack(i, key) ==
    LET prop == m_nodeAnimations[i].props[key]
    IN  ~prop.released /\ prop.finished = "full" /\ Cardinality(ChannelsOf(i, key)) = 1

\* the finish call exportTo makes for prop key of sampler i
FinishCallOf(i, key) ==
    LET anim == m_nodeAnimations[i]
        calls == TransformFinishCalls(anim.transformKind, args, RestPrimaryTRS, RestSecondaryTRS)
                 \o WeightFinishCalls(anim.m_blendShapeCount, args)
    IN  CHOOSE call \in Range(calls) : call.prop = key

\* every sampled component is within the threshold of the matching base component
WithinThreshold(componentValues, baseValues, dimension, constantThreshold) ==
    \A k \in 1..Len(componentValues) :
        Abs(baseValues[((k - 1) % dimension) + 1] - componentValues[k]) < constantThreshold

\* the prop's samples are all equal to each other, frame by frame
SamplesIdentical(prop) ==
    \A k \in 1..Len(prop.componentValuesPerFrame) :
        prop.componentValuesPerFrame[k]
            = prop.componentValuesPerFrame[((k - 1) % prop.dimension) + 1]

----------------------------------------------------------------------------
\* C1: with a step-detection sample count <= 1, a finalized prop is Dropped when
\* it is constant (all samples within the threshold of the base values) and no
\* force flag is set, a SingleKeyframe when it is constant, forceAnimationSampling
\* is clear and forceAnimationChannels is set, and a FullTrack in every other case.
C1_FinishOutcome ==
    args.stepDetectSampleCount <= 1 =>
        \A i \in Samplers : Exported(i) =>
            \A key \in DOMAIN m_nodeAnimations[i].props :
                LET prop == m_nodeAnimations[i].props[key]
                    call == FinishCallOf(i, key)
                    constant == WithinThreshold(prop.componentValuesPerFrame, call.baseValues,
                                                prop.dimension, call.constantThreshold)
                IN  IF constant /\ ~args.forceAnimationSampling /\ ~args.forceAnimationChannels
                    THEN Dropped(i, key)
                    ELSE IF constant /\ ~args.forceAnimationSampling
                         THEN SingleKeyframe(i, key)
                         ELSE FullTrack(i, key)

\* a bake that ended with one prop as a single keyframe and another, whose two
\* frames are identical but differ from the rest pose, as a full track
C1_Witness ==
    /\ pc = "done"
    /\ args.stepDetectSampleCount <= 1
    /\ \E i \in Samplers : \E k1, k2 \in DOMAIN m_nodeAnimations[i].props :
          /\ SingleKeyframe(i, k1)
          /\ FullTrack(i, k2)
          /\ Len(m_nodeAnimations[i].props[k2].componentValuesPerFrame)
                = 2 * m_nodeAnimations[i].props[k2].dimension
          /\ SamplesIdentical(m_nodeAnimations[i].props[k2])

----------------------------------------------------------------------------
\* the T, R and S props of a sampler
TRS == { "m_positions", "m_rotations", "m_scales" }

\* the local transforms the scene showed a Simple sampler in its sampled frames
LocalTransformsSeen(i) ==
    { TransformStateOf([ dev |-> d, shear |-> 0 ]).primaryTRS : d \in observed[i].devs }

ComponentsWithin(values, rest, threshold) ==
    \A k \in 1..Len(rest) : Abs(rest[k] - values[k]) < threshold

\* the local transform of Simple sampler i was the same in every sampled frame and
\* every component of it was within its property's threshold of the rest pose
ConstantWithinThreshold(i) ==
    /\ Cardinality(LocalTransformsSeen(i)) <= 1
    /\ \A t \in LocalTransformsSeen(i) :
          /\ ComponentsWithin(t.translation, RestPrimaryTRS.translation,
                              args.constantTranslationThreshold)
          /\ ComponentsWithin(t.rotation, RestPrimaryTRS.rotation,
                              args.constantRotationThreshold)
          /\ ComponentsWithin(t.scale, RestPrimaryTRS.scale, args.constantScalingThreshold)

SimpleAndConstant(i) ==
    /\ Exported(i)
    /\ m_nodeAnimations[i].transformKind = "Simple"
    /\ ConstantWithinThreshold(i)

\* C2 as claimed, in the configurations whose step-detection sample count is <= 1:
\* a constant Simple node's T, R and S are Dropped with both force flags clear and
\* SingleKeyframe with forceAnimationSampling set.
C2_Original ==
    args.stepDetectSampleCount <= 1 =>
        \A i \in Samplers : SimpleAndConstant(i) =>
            \A key \in TRS :
                /\ (~args.forceAnimationSampling /\ ~args.forceAnimationChannels)
                      => Dropped(i, key)
                /\ args.forceAnimationSampling => SingleKeyframe(i, key)

\* C2 (amended): for every Simple node whose local transform is constant across all
\* frames and within threshold of its rest pose, each of T, R and S is Dropped when
\* both force flags are clear, and is a FullTrack when forceAnimationSampling is set
\* and the step-detection sample count is <= 1.
C2_ConstantSimpleNode ==
    \A i \in Samplers : SimpleAndConstant(i) =>
        \A key \in TRS :
            /\ (~args.forceAnimationSampling /\ ~args.forceAnimationChannels)
                  => Dropped(i, key)
            /\ (args.forceAnimationSampling /\ args.stepDetectSampleCount <= 1)
                  => FullTrack(i, key)

\* a constant Simple node, moved off its rest pose but within threshold, sampled
\* for two frames and exported with forceAnimationSampling set
C2_Witness ==
    /\ pc = "done"
    /\ args.forceAnimationSampling
    /\ args.stepDetectSampleCount <= 1
    /\ \E i \in Samplers :
          /\ SimpleAndConstant(i)
          /\ observed[i].frames = 2
          /\ observed[i].devs = { [ comp |-> "pT", delta |-> 1 ] }
          /\ \A key \in TRS : FullTrack(i, key)

----------------------------------------------------------------------------
\* C3 as claimed: after exportTo every prop has contributed zero channels to the
\* clip, and then it is Dropped, or exactly one; a prop that is not Dropped has
\* exactly one channel, whatever the step-detection sample count.
C3_OneChannelUnlessDropped ==
    \A i \in Samplers : Exported(i) =>
        \A key \in DOMAIN m_nodeAnimations[i].props :
            /\ Cardinality(ChannelsOf(i, key)) <= 1
            /\ ChannelsOf(i, key) = {} => Dropped(i, key)
            /\ ~m_nodeAnimations[i].props[key].released
                  => Cardinality(ChannelsOf(i, key)) = 1

----------------------------------------------------------------------------
\* C4: the props of a sampler are fixed by kind and flags: T, R, S for Simple; T, R,
\* S, C for the complex kinds, plus the two dummies with forceAnimationChannels; a
\* weights prop exactly when the mesh has a blend shape, of that dimension; and no
\* prop is dropped or finished while frames are being sampled.
C4_ChannelBufferSet ==
    \A i \in Samplers :
        LET anim == m_nodeAnimations[i]
            node == table[anim.node]
            keys == DOMAIN anim.props
            transformKeys == keys \ { "m_weights" }
            complex == node.transformKind \in { "ComplexJoint", "ComplexTransform" }
        IN  /\ node.transformKind = "Simple" =>
                  transformKeys = TRS /\ Cardinality(transformKeys) = 3
            /\ (complex /\ ~args.forceAnimationChannels) =>
                  transformKeys = TRS \cup { "m_correctors" } /\ Cardinality(transformKeys) = 4
            /\ (complex /\ args.forceAnimationChannels) =>
                  /\ transformKeys = TRS \cup { "m_correctors", "m_dummyProps1", "m_dummyProps2" }
                  /\ Cardinality(transformKeys) = 6
            /\ "m_weights" \in keys <=> node.blendShapeCount >= 1
            /\ "m_weights" \in keys => anim.props["m_weights"].dimension = node.blendShapeCount
            /\ pc \in { "setTime", "sample" } =>
                  \A key \in keys : ~anim.props[key].released /\ anim.props[key].finished = "no"

\* a ComplexTransform node with blend shapes and forced channels, in its second frame
C4_Witness ==
    /\ pc = "sample"
    /\ relativeFrameIndex = 1
    /\ \E i \in Samplers :
          /\ m_nodeAnimations[i].transformKind = "ComplexTransform"
          /\ Cardinality(DOMAIN m_nodeAnimations[i].props) = 7
          /\ i < samplerIndex

----------------------------------------------------------------------------
\* the number of frames sampler i has been sampled for
FramesSampled(i) ==
    IF pc \in { "export", "done" } THEN m_frames.count
    ELSE relativeFrameIndex + (IF pc = "sample" /\ i < samplerIndex THEN 1 ELSE 0)

C5_Counts ==
    \A i \in Samplers : \A key \in DOMAIN m_nodeAnimations[i].props :
        Len(m_nodeAnimations[i].props[key].componentValuesPerFrame)
            = FramesSampled(i) * m_nodeAnimations[i].props[key].dimension

\* in one step a prop keeps its samples or gets one block of dimension floats at its end
C5_Step ==
    \A i \in Samplers :
        /\ i \in 1..Len(m_nodeAnimations')
        /\ DOMAIN m_nodeAnimations'[i].props = DOMAIN m_nodeAnimations[i].props
        /\ \A key \in DOMAIN m_nodeAnimations[i].props :
              LET old == m_nodeAnimations[i].props[key].componentValuesPerFrame
                  new == m_nodeAnimations'[i].props[key].componentValuesPerFrame
              IN  \/ new = old
                  \/ /\ Len(new) = Len(old) + m_nodeAnimations[i].props[key].dimension
                     /\ SubSeq(new, 1, Len(old)) = old
                     /\ pc = "sample" /\ i = samplerIndex

\* C5: every prop of every sampler gets exactly one block of dimension floats per
\* sampled frame, appended at its end: after k frames it holds k * dimension floats,
\* and frameCount * dimension floats when exportTo is called.
C5_BlockPerFrame == [](C5_Counts) /\ [][C5_Step]_vars

\* a ComplexJoint node with forced channels and two blend shapes after two frames
C5_Witness ==
    /\ pc = "export"
    /\ m_frames.count = 2
    /\ \E i \in Samplers :
          /\ m_nodeAnimations[i].transformKind = "ComplexJoint"
          /\ Cardinality(DOMAIN m_nodeAnimations[i].props) = 7
          /\ Len(m_nodeAnimations[i].props["m_weights"].componentValuesPerFrame) = 4
          /\ Len(m_nodeAnimations[i].props["m_dummyProps2"].componentValuesPerFrame) = 8

----------------------------------------------------------------------------
\* The calls of the bake, by position in the trace.

Calls(op) == { p \in 1..Len(trace) : trace[p].op = op }

\* the position of the last setCurrentTime before position p (0 if none)
CursorMoveBefore(p) ==
    LET earlier == { q \in Calls("setCurrentTime") : q < p }
    IN  IF earlier = {} THEN 0 ELSE CHOOSE q \in earlier : \A r \in earlier : r <= q

\* the cursor moves go through the frames 0, 1, 2, ... in order, each to
\* startTime + times[frame], a later time than the move before
C6_CursorInOrder ==
    \A p \in Calls("setCurrentTime") :
        /\ trace[p].frame = Cardinality({ q \in Calls("setCurrentTime") : q < p })
        /\ trace[p].time = clipArg.startTime + m_frames.times[trace[p].frame + 1]
        /\ CursorMoveBefore(p) # 0 => trace[CursorMoveBefore(p)].time < trace[p].time
        /\ p < Len(trace) /\ trace[p + 1].op = "NodeTransformCache"
                          /\ trace[p + 1].frame = trace[p].frame

\* a sampler is sampled for the frame the cursor stands at, with that frame's time
\* and the cache made right after the cursor moved there
C6_SampledAtCursor ==
    \A p \in Calls("sampleAt") :
        LET q == CursorMoveBefore(p)
        IN  /\ q # 0
            /\ trace[q].frame = trace[p].frame
            /\ trace[p].time = trace[q].time
            /\ trace[p].cache = trace[q + 1].cache
            /\ \A r \in Calls("sampleAt") :
                  /\ trace[r].frame # trace[p].frame => trace[r].cache # trace[p].cache
                  /\ (r # p /\ trace[r].frame = trace[p].frame)
                        => trace[r].sampler # trace[p].sampler

\* when the cursor moves on, every sampler has been sampled for the frame before
C6_FrameComplete ==
    \A p \in Calls("setCurrentTime") :
        trace[p].frame > 0 =>
            \A i \in Samplers :
                \E q \in Calls("sampleAt") :
                    q < p /\ trace[q].sampler = i /\ trace[q].frame = trace[p].frame - 1

\* C6: frames are sampled in increasing time order with no overlap: the cursor is
\* moved to startTime + times[i] before any sampler is sampled for frame i, every
\* sampler is sampled for frame i before the cursor moves to frame i + 1, and the
\* samplers of frame i share one cache, made after the cursor move, that no other
\* frame uses.
C6_FramesInOrder ==
    /\ C6_CursorInOrder
    /\ C6_SampledAtCursor
    /\ C6_FrameComplete
    /\ pc = "sample" =>
          /\ currentTime = clipArg.startTime + m_frames.times[relativeFrameIndex + 1]
          /\ transformCache.id = cachesMade

\* two samplers sampled for two frames each
C6_Witness ==
    /\ pc = "export"
    /\ Len(m_nodeAnimations) = 2
    /\ m_frames.count = 2
    /\ Cardinality(Calls("sampleAt")) = 4
    /\ Cardinality({ trace[p].cache : p \in Calls("sampleAt") }) = 2

----------------------------------------------------------------------------
\* C7: finalization comes after sampling: exportTo is called on no sampler before
\* every sampler was sampled for every frame, sampleAt is not called after an
\* exportTo, exportTo is called once on each sampler, and no prop is finalized or
\* pushed to the clip twice.
C7_ExportAfterSampling ==
    /\ \A p \in Calls("exportTo") :
          /\ \A i \in Samplers : \A f \in 0..(m_frames.count - 1) :
                \E q \in Calls("sampleAt") :
                    q < p /\ trace[q].sampler = i /\ trace[q].frame = f
          /\ \A q \in Calls("sampleAt") : q < p
          /\ \A q \in Calls("exportTo") : q # p => trace[q].sampler # trace[p].sampler
    /\ pc = "done" =>
          \A i \in Samplers : \E p \in Calls("exportTo") : trace[p].sampler = i
    /\ \A i \in Samplers : \A key \in DOMAIN m_nodeAnimations[i].props :
          /\ Cardinality(ChannelsOf(i, key)) <= 1
          /\ ~(m_nodeAnimations[i].props[key].released
                 /\ m_nodeAnimations[i].props[key].finished # "no")
          /\ ~Exported(i) =>
                /\ ChannelsOf(i, key) = {}
                /\ ~m_nodeAnimations[i].props[key].released
                /\ m_nodeAnimations[i].props[key].finished = "no"

\* two samplers sampled for two frames and both exported, with channels in the clip
C7_Witness ==
    /\ pc = "done"
    /\ Len(m_nodeAnimations) = 2
    /\ m_frames.count = 2
    /\ Cardinality(Calls("exportTo")) = 2
    /\ Len(glAnimation.channels) > 3

----------------------------------------------------------------------------
\* the warnings written for the node of sampler i
WarningsOf(i) == { w \in 1..Len(cerr) : cerr[w].node = m_nodeAnimations[i].node }

\* C8 as claimed: the recorded maximum non-orthogonality of a sampler is the largest
\* value among all its sampled frames that exceeded the tolerance, however many such
\* frames there were, and that value is the one the warning reports.
C8_WorstDeviationTracked ==
    \A i \in Samplers :
        /\ m_nodeAnimations[i].m_maxNonOrthogonality = observed[i].worst
        /\ \A w \in WarningsOf(i) : cerr[w].largestDeviation = observed[i].worst

----------------------------------------------------------------------------
C9_FirstTen ==
    \A i \in Samplers :
        LET times == m_nodeAnimations[i].m_invalidLocalTransformTimes
            n == Len(observed[i].invalidTimes)
        IN  /\ Len(times) <= 10
            /\ times = SubSeq(observed[i].invalidTimes, 1, Min(10, n))

C9_OnlyGrows ==
    \A i \in Samplers :
        /\ i \in 1..Len(m_nodeAnimations')
        /\ LET old == m_nodeAnimations[i].m_invalidLocalTransformTimes
               new == m_nodeAnimations'[i].m_invalidLocalTransformTimes
           IN  Len(old) <= Len(new) /\ SubSeq(new, 1, Len(old)) = old

\* C9: the recorded offending times are cap-and-stop: there are at most 10, they are
\* never removed or reordered, and they are the absolute times of the first
\* min(10, n) sampled frames over the tolerance, in frame order.
C9_CapAndStop == [](C9_FirstTen) /\ [][C9_OnlyGrows]_vars

\* an eleventh frame over the tolerance has been sampled and ten times are recorded
C9_Witness ==
    \E i \in Samplers :
        /\ Len(observed[i].invalidTimes) = 11
        /\ Len(m_nodeAnimations[i].m_invalidLocalTransformTimes) = 10

----------------------------------------------------------------------------
\* C10: a node gets one warning per bake if and only if one of its sampled frames
\* was over the tolerance; the warning is written by exportTo, after all frames are
\* sampled, never while sampling; a node without such a frame gets none.
C10_OneWarningPerShearedNode ==
    /\ pc \notin { "export", "done" } => cerr = << >>
    /\ \A i \in Samplers :
          Cardinality(WarningsOf(i))
              = IF Exported(i) /\ observed[i].invalidTimes # << >> THEN 1 ELSE 0
    /\ \A w \in 1..Len(cerr) : \E i \in Samplers : w \in WarningsOf(i)

\* a bake of two nodes sampled for two frames: one warned about, the other, whose
\* frames were all at the tolerance or below, not
C10_Witness ==
    /\ pc = "done"
    /\ Len(m_nodeAnimations) = 2
    /\ m_frames.count = 2
    /\ Len(cerr) = 1
    /\ \E i \in Samplers : observed[i].invalidTimes = << >> /\ WarningsOf(i) = {}

----------------------------------------------------------------------------
\* The bake of one node alone, with the poses and weights sampler i was shown and
\* no non-orthogonality in any frame.

RECURSIVE SampledWithoutShear(_, _, _)
SampledWithoutShear(anim, poses, k) ==
    IF k > Len(poses) THEN anim
    ELSE LET st == [ dev |-> poses[k], shear |-> 0 ]
         IN  SampledWithoutShear(
                 sampleAt(anim, AbsoluteFrameTime(k - 1), TransformStateOf(st),
                          CurrentWeights(st, anim.m_blendShapeCount), args),
                 poses, k + 1)

ShearFreeSampler(i) ==
    SampledWithoutShear(
        NodeAnimation(m_nodeAnimations[i].node, table[m_nodeAnimations[i].node], args),
        observed[i].poses, 1)

ShearFreeExport(i) == exportTo(ShearFreeSampler(i), i, << >>, args)

\* the channels of the clip that sampler i pushed, in order
ClipChannelsOf(i) ==
    LET IsOf(c) == c.sampler = i
    IN  SelectSeq(glAnimation.channels, IsOf)

\* C11: non-orthogonality is advisory: a bake that saw sheared frames has, in every
\* prop, the samples of the bake that saw the same poses and weights without shear,
\* and the same finalize outcomes and output channels; no append is skipped.
C11_ShearIsAdvisory ==
    \A i \in Samplers :
        IF Exported(i)
        THEN /\ m_nodeAnimations[i].props = ShearFreeExport(i).props
             /\ ClipChannelsOf(i) = ShearFreeExport(i).channels
        ELSE m_nodeAnimations[i].props = ShearFreeSampler(i).props

\* a node off its rest pose in a sheared frame, warned about, with channels in the clip
C11_Witness ==
    /\ pc = "done"
    /\ \E i \in Samplers :
          /\ Len(observed[i].invalidTimes) = 1
          /\ observed[i].frames = 2
          /\ observed[i].devs # { NoDev }
          /\ WarningsOf(i) # {}
          /\ Len(ClipChannelsOf(i)) >= 2
          /\ \E key \in DOMAIN m_nodeAnimations[i].props : Dropped(i, key)

----------------------------------------------------------------------------
\* the configured threshold of the property kind a glTF path names
ThresholdOfPath(path, a) ==
    CASE path = "TRANSLATION" -> a.constantTranslationThreshold
      [] path = "ROTATION"    -> a.constantRotationThreshold
      [] path = "SCALE"       -> a.constantScalingThreshold
      [] path = "WEIGHTS"     -> a.constantWeightsThreshold

\* finalize classified the prop constant (visible unless sampling is forced)
ClassifiedConstant(i, key) ==
    LET prop == m_nodeAnimations[i].props[key]
    IN  prop.released \/ prop.finished = "single"

\* the T, R, S, C and W props of sampler i
OwnPropKeys(i) ==
    DOMAIN BaseProps(m_nodeAnimations[i].transformKind)
        \cup DOMAIN WeightProps(m_nodeAnimations[i].m_blendShapeCount)

\* C12: for every decomposition kind, each T, R, S, C and W channel is compared
\* against the threshold of the property kind of its own glTF path: it is
\* classified constant exactly when all its samples are within that threshold
\* of its base values.
C12_ThresholdOfOwnKind ==
    \A i \in Samplers : \A key \in OwnPropKeys(i) :
        ( Exported(i) /\ ~args.forceAnimationSampling )
        => LET prop == m_nodeAnimations[i].props[key]
           IN  ClassifiedConstant(i, key)
               <=> WithinThreshold(prop.componentValuesPerFrame,
                                   FinishCallOf(i, key).baseValues, prop.dimension,
                                   ThresholdOfPath(prop.path, args))

----------------------------------------------------------------------------
\* C13: when the construction of the frame set is rejected (no frame, or a sample
\* rate that is not positive) the bake stops before any side effect: the time
\* cursor is never moved, no sampler is created or sampled, exportTo is never
\* called, no warning is written and the clip gets no channel.
C13_RejectedBeforeAnyEffect ==
    ~FrameGridValid(clipArg.frameCount, clipArg.framesPerSecond)
    => /\ pc \in { "start", "failed" }
       /\ trace = << >>
       /\ currentTime = 0
       /\ m_frames = NoFrames
       /\ m_nodeAnimations = << >>
       /\ glAnimation.channels = << >>
       /\ cerr = << >>

\* a clip of two frames at sample rate 0 over two animatable nodes, rejected
C13_Witness ==
    /\ pc = "failed"
    /\ clipArg.frameCount = 2
    /\ clipArg.framesPerSecond = 0
    /\ Len(table) = 2
    /\ \A n \in 1..Len(table) : table[n].animatable

----------------------------------------------------------------------------
\* no node of the scene yields an animation (the scene may have no node at all)
NoNodeAnimates == \A n \in 1..Len(table) : ~table[n].animatable

\* C14: a bake over a scene with no exportable node, or whose every node yields no
\* animation, completes without error and returns a clip with zero channels: no
\* sampler exists, nothing is sampled or exported, and the time cursor is still
\* moved once per frame, in frame order.
C14_EmptySceneBakes ==
    ( NoNodeAnimates /\ FrameGridValid(clipArg.frameCount, clipArg.framesPerSecond) )
    => /\ pc # "failed"
       /\ pc = "done" \/ ENABLED Next
       /\ pc \notin { "start", "createAnimations" } => m_nodeAnimations = << >>
       /\ Calls("sampleAt") = {} /\ Calls("exportTo") = {}
       /\ glAnimation.channels = << >> /\ cerr = << >>
       /\ \A p \in Calls("setCurrentTime") :
             /\ trace[p].frame = Cardinality({ q \in Calls("setCurrentTime") : q < p })
             /\ trace[p].time = clipArg.startTime + m_frames.times[trace[p].frame + 1]
       /\ pc \in { "export", "done" } =>
             Cardinality(Calls("setCurrentTime")) = clipArg.frameCount

\* the bake of a two-frame clip over a scene whose only node yields no animation,
\* returned with the cursor moved twice
C14_Witness ==
    /\ pc = "done"
    /\ Len(table) = 1 /\ NoNodeAnimates
    /\ clipArg.frameCount = 2
    /\ Cardinality(Calls("setCurrentTime")) = 2
    /\ currentTime = clipArg.startTime + m_frames.times[2]

\* the same bake over a scene with no node
C14_WitnessNoNode ==
    /\ pc = "done"
    /\ table = << >>
    /\ clipArg.frameCount = 2
    /\ Cardinality(Calls("setCurrentTime")) = 2

----------------------------------------------------------------------------
\* The bake of the node of sampler i alone in the scene, shown the poses and
\* weights sampler i was shown.
SoloExport(i) == exportTo(ShearFreeSampler(i), 1, << >>, args)

\* a channel without the position of its sampler in the clip
OutputChannel(c) == [ prop |-> c.prop, propName |-> c.propName, target |-> c.target, path |-> c.path ]

OutputChannels(channels) == [ c \in 1..Len(channels) |-> OutputChannel(channels[c]) ]

\* what sampler i holds follows from what its own node was shown
C15_OwnHistoryOnly ==
    \A i \in Samplers :
        /\ Len(observed[i].invalidTimes) <= Capacity =>
              /\ m_nodeAnimations[i].m_invalidLocalTransformTimes = observed[i].invalidTimes
              /\ m_nodeAnimations[i].m_maxNonOrthogonality = observed[i].worst
        /\ IF Exported(i)
           THEN /\ m_nodeAnimations[i].props = SoloExport(i).props
                /\ OutputChannels(ClipChannelsOf(i)) = OutputChannels(SoloExport(i).channels)
                /\ (WarningsOf(i) # {}) <=> (observed[i].invalidTimes # << >>)
           ELSE m_nodeAnimations[i].props = ShearFreeSampler(i).props

\* a sampleAt or exportTo on one sampler leaves the other samplers as they were
C15_OthersUntouched ==
    \A i \in Samplers :
        ( pc \in { "sample", "export" } /\ i # samplerIndex )
        => /\ m_nodeAnimations'[i] = m_nodeAnimations[i]
           /\ ClipChannelsOf(i)' = ClipChannelsOf(i)
           /\ WarningsOf(i)' = WarningsOf(i)

\* C15: samplers are isolated: sampleAt and exportTo on one sampler leave the props,
\* the list of offending times and the worst deviation of every other sampler
\* unchanged, and the props, recorded times, warning and output channels of a node
\* are those of the node baked alone with what it was itself shown, whether or not
\* another node was baked before it or recorded shear.
C15_SamplersIsolated == [](C15_OwnHistoryOnly) /\ [][C15_OthersUntouched]_vars

\* node A moved and sheared in a frame, node B after it at rest and never sheared:
\* A is warned about and has a channel, B has neither
C15_Witness ==
    /\ pc = "done"
    /\ Len(m_nodeAnimations) = 2
    /\ observed[1].frames = 2
    /\ Len(observed[1].invalidTimes) = 2 /\ observed[1].devs # { NoDev }
    /\ observed[2].invalidTimes = << >> /\ observed[2].devs = { NoDev }
    /\ WarningsOf(1) # {} /\ WarningsOf(2) = {}
    /\ ClipChannelsOf(1) # << >> /\ ClipChannelsOf(2) = << >>

----------------------------------------------------------------------------
\* the output nodes a node of a decomposition kind is written as
OutputNodesOf(kind) == IF kind = "Simple" THEN { "p" } ELSE { "p", "s" }

TRSPaths == { "TRANSLATION", "ROTATION", "SCALE" }

\* the channels of the clip that sampler i pushed for a path of an output node
ChannelsTargeting(i, target, path) ==
    { c \in 1..Len(glAnimation.channels) :
        /\ glAnimation.channels[c].sampler = i
        /\ glAnimation.channels[c].target = target
        /\ glAnimation.channels[c].path = path }

\* C16: with forceAnimationChannels set and a step-detection sample count <= 1,
\* after exportTo each output node of a node (primary and secondary for a
\* ComplexJoint or ComplexTransform node, primary for a Simple node) is the target
\* of exactly one translation, one rotation and one scale channel.
C16_CompleteTRSCoverage ==
    \A i \in Samplers :
        ( Exported(i) /\ args.forceAnimationChannels /\ args.stepDetectSampleCount <= 1 )
        => \A target \in OutputNodesOf(m_nodeAnimations[i].transformKind) :
              \A path \in TRSPaths :
                  Cardinality(ChannelsTargeting(i, target, path)) = 1

\* a ComplexJoint node at its rest pose in both frames, exported with forced
\* channels: three channels on each of its two output nodes
C16_Witness ==
    /\ pc = "done"
    /\ args.forceAnimationChannels /\ ~args.forceAnimationSampling
    /\ args.stepDetectSampleCount = 1 /\ args.constantTranslationThreshold > 0
    /\ \E i \in Samplers :
          /\ m_nodeAnimations[i].transformKind = "ComplexJoint"
          /\ observed[i].frames = 2 /\ observed[i].devs = { NoDev }
          /\ \A target \in { "p", "s" } : \A path \in TRSPaths :
                Cardinality(ChannelsTargeting(i, target, path)) = 1
          /\ SingleKeyframe(i, "m_correctors") /\ FullTrack(i, "m_dummyProps2")

----------------------------------------------------------------------------
\* the component of a decomposed transform that an output node and path name
ComponentOf(transformState, target, path) ==
    LET trs == IF target = "p" THEN transformState.primaryTRS
                               ELSE transformState.secondaryTRS
    IN  CASE path = "TRANSLATION" -> trs.translation
          [] path = "ROTATION"    -> trs.rotation
          [] path = "SCALE"       -> trs.scale

\* that component in each of the poses, frame after frame
RECURSIVE ComponentPerFrame(_, _, _, _)
ComponentPerFrame(poses, k, target, path) ==
    IF k > Len(poses) THEN << >>
    ELSE ComponentOf(TransformStateOf([ dev |-> poses[k], shear |-> 0 ]), target, path)
         \o ComponentPerFrame(poses, k + 1, target, path)

\* the T, R, S, C and dummy props of sampler i
TransformPropKeys(i) ==
    DOMAIN TransformProps(m_nodeAnimations[i].transformKind, args.forceAnimationChannels)

ThresholdsPositive ==
    /\ args.constantTranslationThreshold > 0 /\ args.constantRotationThreshold > 0
    /\ args.constantScalingThreshold > 0

\* C17: channel routing is consistent across construction, sampling and
\* finalization: for every decomposition kind and every T, R, S, C and dummy prop,
\* the samples appended each frame are the component of the primary or secondary
\* TRS that the prop's output node and path name, the base values of its finish
\* call are that component of the rest pose, and its channel has that node and
\* path; so a node at its rest pose in every frame has T, R, S and C Dropped when
\* no force flag is set and the thresholds are positive.
C17_RoutingConsistent ==
    \A i \in Samplers : \A key \in TransformPropKeys(i) :
        LET prop == m_nodeAnimations[i].props[key]
        IN  /\ prop.componentValuesPerFrame
                 = ComponentPerFrame(observed[i].poses, 1, prop.target, prop.path)
            /\ FinishCallOf(i, key).baseValues
                 = ComponentOf([ primaryTRS |-> RestPrimaryTRS, secondaryTRS |-> RestSecondaryTRS ],
                               prop.target, prop.path)
            /\ \A c \in ChannelsOf(i, key) :
                  /\ glAnimation.channels[c].target = prop.target
                  /\ glAnimation.channels[c].path = prop.path
            /\ ( /\ Exported(i) /\ observed[i].devs \subseteq { NoDev }
                 /\ ~args.forceAnimationSampling /\ ~args.forceAnimationChannels
                 /\ ThresholdsPositive
                 /\ key \in DOMAIN BaseProps(m_nodeAnimations[i].transformKind) )
               => Dropped(i, key)

\* a ComplexTransform node at its rest pose in both frames, exported without force
\* flag under positive thresholds: T, R, S and C are Dropped
C17_Witness ==
    /\ pc = "done"
    /\ ~args.forceAnimationSampling /\ ~args.forceAnimationChannels /\ ThresholdsPositive
    /\ \E i \in Samplers :
          /\ m_nodeAnimations[i].transformKind = "ComplexTransform"
          /\ observed[i].frames = 2 /\ observed[i].devs = { NoDev }
          /\ \A key \in { "m_positions", "m_rotations", "m_scales", "m_correctors" } :
                Dropped(i, key)

\* a ComplexTransform node with forced channels whose primary translation moved in
\* one of two frames: the corrector holds the moved primary translation
C17_WitnessMoved ==
    /\ pc = "done"
    /\ args.forceAnimationChannels
    /\ \E i \in Samplers :
          /\ m_nodeAnimations[i].transformKind = "ComplexTransform"
          /\ observed[i].poses = << NoDev, [ comp |-> "pT", delta |-> 1 ] >>
          /\ FullTrack(i, "m_correctors") /\ FullTrack(i, "m_dummyProps1")

----------------------------------------------------------------------------
\* the dummy props of sampler i
DummyPropKeys(i) ==
    DOMAIN DummyProps(m_nodeAnimations[i].transformKind, args.forceAnimationChannels)

\* some sampled component is off its base component by exactly the threshold
AtThreshold(componentValues, baseValues, dimension, constantThreshold) ==
    \E k \in 1..Len(componentValues) :
        Abs(baseValues[((k - 1) % dimension) + 1] - componentValues[k]) = constantThreshold

\* a full track with one key per frame of the clip
FullTrackOfAllFrames(i, key) ==
    /\ FullTrack(i, key)
    /\ Len(m_nodeAnimations[i].props[key].componentValuesPerFrame)
         = m_frames.count * m_nodeAnimations[i].props[key].dimension

\* C18: the comparison against the threshold is strict: a prop with a sample off its
\* base by exactly the threshold is not classified constant, so a prop finished with
\* threshold 0 is never classified constant once a frame has been sampled, even if
\* every sample equals its base value; the dummy props, finished with threshold 0,
\* are emitted as full tracks of frameCount keys and never Dropped or SingleKeyframe
\* when the step-detection sample count is <= 1; a prop with no sampled frame is
\* classified constant by the comparison whatever the threshold.
C18_StrictComparison ==
    \A i \in Samplers : \A key \in DOMAIN m_nodeAnimations[i].props :
        LET prop == m_nodeAnimations[i].props[key]
            call == FinishCallOf(i, key)
        IN  /\ key \in DummyPropKeys(i) => call.constantThreshold = 0
            /\ ( Exported(i) /\ AtThreshold(prop.componentValuesPerFrame, call.baseValues,
                                            prop.dimension, call.constantThreshold) )
               => ~ClassifiedConstant(i, key)
            /\ ( Exported(i) /\ call.constantThreshold = 0
                 /\ prop.componentValuesPerFrame # << >> )
               => /\ ~ClassifiedConstant(i, key)
                  /\ args.stepDetectSampleCount <= 1 => FullTrackOfAllFrames(i, key)
            /\ prop.componentValuesPerFrame = << >>
               => IsConstant(prop.componentValuesPerFrame, call.baseValues,
                             prop.dimension, call.constantThreshold)

\* a ComplexJoint node at its rest pose in both frames, exported with forced channels
\* and all thresholds 0: its dummies and its translation are full tracks
C18_Witness ==
    /\ pc = "done"
    /\ args.forceAnimationChannels /\ ~args.forceAnimationSampling
    /\ args.constantTranslationThreshold = 0
    /\ \E i \in Samplers :
          /\ m_nodeAnimations[i].transformKind = "ComplexJoint"
          /\ observed[i].frames = 2 /\ observed[i].devs = { NoDev }
          /\ FullTrackOfAllFrames(i, "m_dummyProps1")
          /\ FullTrackOfAllFrames(i, "m_dummyProps2")
          /\ FullTrackOfAllFrames(i, "m_positions")

\* a sampler before its first frame: its props hold no sample
C18_WitnessNoFrame ==
    /\ pc = "setTime"
    /\ \E i \in Samplers :
          /\ observed[i].frames = 0
          /\ m_nodeAnimations[i].props["m_positions"].componentValuesPerFrame = << >>
          /\ FinishCallOf(i, "m_positions").constantThreshold = 0

====
